---- MODULE Spec2Model ----
(***************************************************************************)
(* Stream Lightning (src/server.py): the room table, the viewer sets, the  *)
(* chat and stats logs and the Socket.IO broadcast groups of the          *)
(* signalling server, with one action per event handler.                  *)
(*                                                                         *)
(* Spec          every handler runs to completion before the next starts   *)
(*               (the "sequence of events" reading of the contract).       *)
(* SpecStats     only stream_stats events, long enough to pass the cap.    *)
(* SpecThreaded  async_mode='threading' (line 23): each handler runs in    *)
(*               its own thread, one statement at a time, interleaved      *)
(*               with the handlers of other connections.                   *)
(***************************************************************************)
EXTENDS Integers, Sequences, FiniteSets, TLC

VARIABLES
    conn,          \* sid -> "fresh" | "open" | "closed" (the transport)
    active_rooms,  \* dict room_id -> reference to a StreamRoom object
    heap,          \* reference -> StreamRoom object
    stream_stats,  \* dict room_id -> list of stats entries
    sio_rooms,     \* Socket.IO broadcast groups: name -> set of sids
    appended,      \* room_id -> every stats entry ever appended, in order
    now,           \* logical clock, one tick per inbound client event
    last,          \* the event applied last
    outbox,        \* the messages emitted by the handlers, in order
    pre,           \* the shared state before the event applied last
    pc,            \* SpecThreaded: sid -> position of its running handler
    frame          \* SpecThreaded: sid -> locals of its running handler

vars == <<conn, active_rooms, heap, stream_stats, sio_rooms, appended, now,
          last, outbox, pre, pc, frame>>

-----------------------------------------------------------------------------
(* Bounds and input domains *)

MaxEvents == 3
MaxStatsEvents == 103
MaxThreadedEvents == 3

\* a room name clients agree on
RoomNames == {"r1"}

\* the sids the library hands out
Sids == {"s1", "s2", "s3"}

\* data.get(k) of a missing (or null) field
None == "None"

\* values a client puts in room_id: a room name, the sid of a connection,
\* or nothing
RoomIds == RoomNames \cup {"s1", None}

\* values a client puts in target_id
TargetIds == {"s1", "s2", None} \cup RoomNames

\* usernames and opaque payloads (offer, answer, candidate, stats)
Usernames == {"Bob", None}
Payloads == {"p1"}

GroupNames == (RoomIds \cup TargetIds \cup Sids) \ {None}

-----------------------------------------------------------------------------
(* class StreamRoom *)

\* a slip: the two arguments of the constructor taken in the other order
StreamRoom_swapped(room_id, host_id, t) ==
    [room_id |-> host_id, host_id |-> room_id, viewers |-> {},
     chat_history |-> <<>>, created_at |-> t, stream_active |-> FALSE]

StreamRoom(room_id, host_id, t) ==
    [room_id |-> room_id, host_id |-> host_id, viewers |-> {},
     chat_history |-> <<>>, created_at |-> t, stream_active |-> FALSE]

\* a slip: self.viewers ^= {viewer_id}
add_viewer_xor(room, viewer_id) ==
    [room EXCEPT !.viewers = (@ \cup {viewer_id}) \ (@ \cap {viewer_id})]

add_viewer(room, viewer_id) ==
    [room EXCEPT !.viewers = @ \cup {viewer_id}]

remove_viewer(room, viewer_id) ==
    [room EXCEPT !.viewers = @ \ {viewer_id}]

\* a slip: the host counted among the viewers
get_viewer_count_with_host(room) ==
    Cardinality(room.viewers \cup {room.host_id})

get_viewer_count(room) == Cardinality(room.viewers)

-----------------------------------------------------------------------------
(* Python dicts and object references *)

DictPut(d, k, v) == [x \in DOMAIN d \cup {k} |-> IF x = k THEN v ELSE d[x]]

DictDel(d, k) == [x \in DOMAIN d \ {k} |-> d[x]]

Range(d) == {d[x] : x \in DOMAIN d}

\* a fresh reference
Alloc(h) == CHOOSE o \in 1..(Cardinality(DOMAIN h) + 1) : o \notin DOMAIN h

\* objects no dict entry and no running handler refers to are collected
Collect(h, roots) == [o \in DOMAIN h \cap roots |-> h[o]]

\* the references the locals of the running handlers hold: room (line 105)
\* and the rooms of the list of line 70
FrameRefs(f) ==
    UNION {({f[s].room} \ {0})
           \cup {f[s].todo[i][2] : i \in 1..Len(f[s].todo)} : s \in DOMAIN f}

\* the room stored under room_id (room_id in active_rooms)
RoomAt(ar, h, room_id) == h[ar[room_id]]

-----------------------------------------------------------------------------
(* Flask-SocketIO: join_room, emit and the groups *)

\* join_room(room): request.sid enters the group; the group None is the
\* group of all connections, which it is in already
enter_room(groups, sid, room) ==
    IF room = None THEN groups
    ELSE [groups EXCEPT ![room] = @ \cup {sid}]

\* the library takes a disconnected sid out of every group after the handler
leave_all(groups, sid) == [g \in DOMAIN groups |-> groups[g] \ {sid}]

\* emit(..., room=room, include_self=...): the connections the message is
\* delivered to. Without a room (or with room=None) the message is addressed
\* to request.sid, which names the sender's own group.
Recipients(groups, c, sid, room, include_self) ==
    LET to == IF room = None THEN sid ELSE room
        skip == IF include_self THEN {} ELSE {sid}
    IN  {s \in groups[to] \ skip : c[s] = "open"}

\* one emitted message: the event, request.sid, the payload, the room= argument
\* and the connections it reaches
emit(groups, c, sid, event, payload, room, include_self) ==
    [event |-> event, sender |-> sid, payload |-> payload, room |-> room,
     to |-> Recipients(groups, c, sid, room, include_self)]

\* the body of an HTTP response (jsonify)
response(route, body) ==
    [event |-> route, sender |-> None, payload |-> body, room |-> None, to |-> {}]

Shared ==
    [active_rooms |-> active_rooms, heap |-> heap,
     stream_stats |-> stream_stats, sio_rooms |-> sio_rooms, conn |-> conn]

Event(ev, sid, room_id, target_id) ==
    [ev |-> ev, sid |-> sid, room_id |-> room_id, target_id |-> target_id]

\* the locals of a handler: room_id, username, stats (from data), room
\* (a reference, 0 when unset), todo (the rest of the list of line 70) and
\* added (the size of the viewer set when line 107 had added the joiner)
NoFrame ==
    [room_id |-> None, username |-> None, stats |-> None, room |-> 0,
     todo |-> <<>>, added |-> 0]

Idle == [s \in Sids |-> "idle"]
NoFrames == [s \in Sids |-> NoFrame]

-----------------------------------------------------------------------------
(* Initial state: the module-level tables of lines 26-28, nobody connected *)

Init ==
    /\ conn = [s \in Sids |-> "fresh"]
    /\ active_rooms = <<>>
    /\ heap = <<>>
    /\ stream_stats = <<>>
    /\ sio_rooms = [g \in GroupNames |-> {}]
    /\ appended = <<>>
    /\ now = 0
    /\ last = Event("init", None, None, None)
    /\ outbox = <<>>
    /\ pre = [active_rooms |-> <<>>, heap |-> <<>>, stream_stats |-> <<>>,
              sio_rooms |-> [g \in GroupNames |-> {}],
              conn |-> [s \in Sids |-> "fresh"]]
    /\ pc = Idle
    /\ frame = NoFrames

-----------------------------------------------------------------------------
(* The handlers, each run to completion *)

\* data.get('username', 'Anonymous')
username_of(username) == IF username = None THEN "Anonymous" ELSE username

\* what every completed handler leaves behind
Applied(ev, sid, room_id, target_id) ==
    /\ last' = Event(ev, sid, room_id, target_id)
    /\ pre' = Shared
    /\ now' = now + 1
    /\ UNCHANGED <<pc, frame>>

\* a new connection: the library puts the sid in its own group
handle_connect(sid) ==
    /\ conn[sid] = "fresh"
    /\ conn' = [conn EXCEPT ![sid] = "open"]
    /\ sio_rooms' = enter_room(sio_rooms, sid, sid)
    /\ outbox' = <<emit(sio_rooms', conn', sid, "connected", [sid |-> sid],
                        None, TRUE)>>
    /\ last' = Event("connect", sid, None, None)
    /\ pre' = Shared
    /\ UNCHANGED <<active_rooms, heap, stream_stats, appended, now, pc, frame>>

handle_create_room(sid, room_id) ==
    /\ conn[sid] = "open"
    /\ LET o == Alloc(heap)
           ar == DictPut(active_rooms, room_id, o)
           h == DictPut(heap, o, StreamRoom(room_id, sid, now))
           groups == enter_room(sio_rooms, sid, room_id)
       IN  /\ sio_rooms' = groups
           /\ active_rooms' = ar
           /\ heap' = Collect(h, Range(ar))
           /\ outbox' = <<emit(groups, conn, sid, "room_created",
                               [room_id |-> room_id, host_id |-> sid],
                               None, TRUE)>>
    /\ UNCHANGED <<conn, stream_stats, appended>>
    /\ Applied("create_room", sid, room_id, None)

handle_join_room(sid, room_id, username) ==
    /\ conn[sid] = "open"
    /\ IF room_id \notin DOMAIN active_rooms
       THEN /\ outbox' = <<emit(sio_rooms, conn, sid, "error",
                                [message |-> "Room not found"], None, TRUE)>>
            /\ UNCHANGED <<active_rooms, heap, sio_rooms>>
       ELSE LET o == active_rooms[room_id]
                groups == enter_room(sio_rooms, sid, room_id)
                room == add_viewer(heap[o], sid)
            IN  /\ sio_rooms' = groups
                /\ heap' = [heap EXCEPT ![o] = room]
                /\ outbox' =
                     <<emit(groups, conn, sid, "room_joined",
                            [room_id |-> room_id,
                             viewer_count |-> get_viewer_count(room),
                             username |-> username_of(username)],
                            None, TRUE),
                       emit(groups, conn, sid, "viewer_joined",
                            [viewer_id |-> sid,
                             username |-> username_of(username),
                             viewer_count |-> get_viewer_count(room)],
                            room_id, FALSE)>>
                /\ UNCHANGED active_rooms
    /\ UNCHANGED <<conn, stream_stats, appended>>
    /\ Applied("join_room", sid, room_id, None)

\* a slip: the elif branch of the loop left out
disconnect_room_host_only(st, sid, room_id, groups, c) ==
    LET room == st.heap[st.active_rooms[room_id]]
    IN  IF sid = room.host_id
        THEN [st EXCEPT
                !.out = Append(@, emit(groups, c, sid, "stream_ended",
                                       [message |-> "Host disconnected"],
                                       room_id, TRUE)),
                !.active_rooms = DictDel(@, room_id)]
        ELSE st

\* one iteration of the loop of handle_disconnect over the snapshot
\* list(active_rooms.items()); st holds the tables and the messages so far
disconnect_room(st, sid, room_id, groups, c) ==
    LET o == st.active_rooms[room_id]
        room == st.heap[o]
    IN  IF sid = room.host_id
        THEN [st EXCEPT
                !.out = Append(@, emit(groups, c, sid, "stream_ended",
                                       [message |-> "Host disconnected"],
                                       room_id, TRUE)),
                !.active_rooms = DictDel(@, room_id)]
        ELSE IF sid \in room.viewers
        THEN LET left == remove_viewer(room, sid)
             IN  [st EXCEPT
                    !.heap = [@ EXCEPT ![o] = left],
                    !.out = Append(@, emit(groups, c, sid, "viewer_left",
                                           [viewer_id |-> sid,
                                            viewer_count |-> get_viewer_count(left)],
                                           room_id, TRUE))]
        ELSE st

RECURSIVE disconnect_scan(_, _, _, _, _)
disconnect_scan(st, todo, sid, groups, c) ==
    IF todo = {} THEN st
    ELSE LET room_id == CHOOSE k \in todo : TRUE
         IN  disconnect_scan(disconnect_room(st, sid, room_id, groups, c),
                             todo \ {room_id}, sid, groups, c)

handle_disconnect(sid) ==
    /\ conn[sid] = "open"
    /\ LET c == [conn EXCEPT ![sid] = "closed"]
           st == disconnect_scan([active_rooms |-> active_rooms, heap |-> heap,
                                  out |-> <<>>],
                                 DOMAIN active_rooms, sid, sio_rooms, c)
       IN  /\ conn' = c
           /\ active_rooms' = st.active_rooms
           /\ heap' = Collect(st.heap, Range(st.active_rooms))
           /\ outbox' = st.out
           /\ sio_rooms' = leave_all(sio_rooms, sid)
    /\ UNCHANGED <<stream_stats, appended>>
    /\ Applied("disconnect", sid, None, None)

handle_start_stream(sid, room_id) ==
    /\ conn[sid] = "open"
    /\ IF room_id \in DOMAIN active_rooms
       THEN LET o == active_rooms[room_id]
            IN  /\ heap' = [heap EXCEPT ![o].stream_active = TRUE]
                /\ outbox' = <<emit(sio_rooms, conn, sid, "stream_started",
                                    [room_id |-> room_id], room_id, TRUE)>>
       ELSE /\ outbox' = <<>>
            /\ UNCHANGED heap
    /\ UNCHANGED <<conn, active_rooms, stream_stats, appended, sio_rooms>>
    /\ Applied("start_stream", sid, room_id, None)

handle_stop_stream(sid, room_id) ==
    /\ conn[sid] = "open"
    /\ IF room_id \in DOMAIN active_rooms
       THEN LET o == active_rooms[room_id]
            IN  /\ heap' = [heap EXCEPT ![o].stream_active = FALSE]
                /\ outbox' = <<emit(sio_rooms, conn, sid, "stream_stopped",
                                    [room_id |-> room_id], room_id, TRUE)>>
       ELSE /\ outbox' = <<>>
            /\ UNCHANGED heap
    /\ UNCHANGED <<conn, active_rooms, stream_stats, appended, sio_rooms>>
    /\ Applied("stop_stream", sid, room_id, None)

\* handle_offer, handle_answer and handle_ice_candidate differ in the name of
\* the event and of the payload field only
relay(event, sid, target_id, payload) ==
    <<emit(sio_rooms, conn, sid, event,
           [body |-> payload, sender_id |-> sid], target_id, TRUE)>>

handle_offer(sid, target_id, offer) ==
    /\ conn[sid] = "open"
    /\ outbox' = relay("offer", sid, target_id, offer)
    /\ UNCHANGED <<conn, active_rooms, heap, stream_stats, appended, sio_rooms>>
    /\ Applied("offer", sid, None, target_id)

handle_answer(sid, target_id, answer) ==
    /\ conn[sid] = "open"
    /\ outbox' = relay("answer", sid, target_id, answer)
    /\ UNCHANGED <<conn, active_rooms, heap, stream_stats, appended, sio_rooms>>
    /\ Applied("answer", sid, None, target_id)

handle_ice_candidate(sid, target_id, candidate) ==
    /\ conn[sid] = "open"
    /\ outbox' = relay("ice_candidate", sid, target_id, candidate)
    /\ UNCHANGED <<conn, active_rooms, heap, stream_stats, appended, sio_rooms>>
    /\ Applied("ice_candidate", sid, None, target_id)

handle_chat_message(sid, room_id, message, username) ==
    /\ conn[sid] = "open"
    /\ IF room_id \in DOMAIN active_rooms
       THEN LET o == active_rooms[room_id]
                chat_data == [username |-> username_of(username),
                              message |-> message, timestamp |-> now]
            IN  /\ heap' = [heap EXCEPT ![o].chat_history = Append(@, chat_data)]
                /\ outbox' = <<emit(sio_rooms, conn, sid, "chat_message",
                                    chat_data, room_id, TRUE)>>
       ELSE /\ outbox' = <<>>
            /\ UNCHANGED heap
    /\ UNCHANGED <<conn, active_rooms, stream_stats, appended, sio_rooms>>
    /\ Applied("chat_message", sid, room_id, None)

handle_latency_ping(sid, timestamp) ==
    /\ conn[sid] = "open"
    /\ outbox' = <<emit(sio_rooms, conn, sid, "latency_pong",
                        [timestamp |-> timestamp, server_time |-> now],
                        None, TRUE)>>
    /\ UNCHANGED <<conn, active_rooms, heap, stream_stats, appended, sio_rooms>>
    /\ Applied("latency_ping", sid, None, None)

\* a slip: lst[:n]
FirstN(lst, n) == SubSeq(lst, 1, IF Len(lst) > n THEN n ELSE Len(lst))

\* lst[-n:]
LastN(lst, n) == SubSeq(lst, IF Len(lst) > n THEN Len(lst) - n + 1 ELSE 1, Len(lst))

\* line 217: the length above which the log is cut
StatsLimit == 100
\* line 218: the number of entries the cut keeps
StatsKeep == 100

\* the log of room_id after one more entry (lines 208-218)
stats_appended(table, room_id, entry) ==
    LET log == IF room_id \in DOMAIN table THEN table[room_id] ELSE <<>>
        more == Append(log, entry)
    IN  IF Len(more) > StatsLimit THEN LastN(more, StatsKeep) ELSE more

handle_stream_stats(sid, room_id, stats) ==
    /\ conn[sid] = "open"
    /\ LET entry == [timestamp |-> now, stats |-> stats]
       IN  /\ stream_stats' =
                DictPut(stream_stats, room_id,
                        stats_appended(stream_stats, room_id, entry))
           /\ appended' =
                DictPut(appended, room_id,
                        Append(IF room_id \in DOMAIN appended
                               THEN appended[room_id] ELSE <<>>, entry))
    /\ outbox' = <<>>
    /\ UNCHANGED <<conn, active_rooms, heap, sio_rooms>>
    /\ Applied("stream_stats", sid, room_id, None)

\* GET /api/rooms: the listing, one row for each room of the table
get_rooms ==
    /\ outbox' = <<response("api_rooms",
                       [k \in DOMAIN active_rooms |->
                          LET room == RoomAt(active_rooms, heap, k)
                          IN  [room_id |-> k,
                               viewer_count |-> get_viewer_count(room),
                               stream_active |-> room.stream_active,
                               created_at |-> room.created_at]])>>
    /\ UNCHANGED <<conn, active_rooms, heap, stream_stats, appended, sio_rooms>>
    /\ Applied("get_rooms", None, None, None)

\* GET /api/stats/<room_id>
get_stats(room_id) ==
    /\ outbox' = <<response("api_stats",
                       IF room_id \in DOMAIN stream_stats
                       THEN stream_stats[room_id] ELSE <<>>)>>
    /\ UNCHANGED <<conn, active_rooms, heap, stream_stats, appended, sio_rooms>>
    /\ Applied("get_stats", None, room_id, None)

-----------------------------------------------------------------------------
(* The dispatch of inbound events (@socketio.on, @app.route): any open      *)
(* connection may send any event with any payload, while the run lasts      *)

Budget == now < MaxEvents

OnConnect == \E sid \in Sids : handle_connect(sid)

OnDisconnect == \E sid \in Sids : Budget /\ handle_disconnect(sid)

OnCreateRoom ==
    \E sid \in Sids, room_id \in RoomIds :
        Budget /\ handle_create_room(sid, room_id)

OnJoinRoom ==
    \E sid \in Sids, room_id \in RoomIds, username \in Usernames :
        Budget /\ handle_join_room(sid, room_id, username)

OnStartStream ==
    \E sid \in Sids, room_id \in RoomIds :
        Budget /\ handle_start_stream(sid, room_id)

OnStopStream ==
    \E sid \in Sids, room_id \in RoomIds :
        Budget /\ handle_stop_stream(sid, room_id)

OnOffer ==
    \E sid \in Sids, target_id \in TargetIds, offer \in Payloads :
        Budget /\ handle_offer(sid, target_id, offer)

OnAnswer ==
    \E sid \in Sids, target_id \in TargetIds, answer \in Payloads :
        Budget /\ handle_answer(sid, target_id, answer)

OnIceCandidate ==
    \E sid \in Sids, target_id \in TargetIds, candidate \in Payloads :
        Budget /\ handle_ice_candidate(sid, target_id, candidate)

OnChatMessage ==
    \E sid \in Sids, room_id \in RoomIds, username \in Usernames :
        Budget /\ handle_chat_message(sid, room_id, "hi", username)

OnLatencyPing == \E sid \in Sids : Budget /\ handle_latency_ping(sid, "t0")

OnStreamStats ==
    \E sid \in Sids, room_id \in RoomIds, stats \in Payloads :
        Budget /\ handle_stream_stats(sid, room_id, stats)

GetRooms == Budget /\ get_rooms

GetStats == \E room_id \in RoomIds : Budget /\ get_stats(room_id)

Next ==
    \/ OnConnect
    \/ OnDisconnect
    \/ OnCreateRoom
    \/ OnJoinRoom
    \/ OnStartStream
    \/ OnStopStream
    \/ OnOffer
    \/ OnAnswer
    \/ OnIceCandidate
    \/ OnChatMessage
    \/ OnLatencyPing
    \/ OnStreamStats
    \/ GetRooms
    \/ GetStats

Spec == Init /\ [][Next]_vars

-----------------------------------------------------------------------------
(* Stats events alone *)

\* only stats events for one room id, enough of them to pass the cap
OnStreamStatsOneRoom ==
    \E sid \in Sids, room_id \in RoomNames, stats \in Payloads :
        now < MaxStatsEvents /\ handle_stream_stats(sid, room_id, stats)

NextStats == OnConnect \/ OnStreamStatsOneRoom

SpecStats == Init /\ [][NextStats]_vars

-----------------------------------------------------------------------------
(* Connect, create_room, join_room and disconnect events alone *)

MaxLifecycleEvents == 4

LifecycleBudget == now < MaxLifecycleEvents

LifecycleDisconnect ==
    \E sid \in Sids : LifecycleBudget /\ handle_disconnect(sid)

LifecycleCreateRoom ==
    \E sid \in Sids, room_id \in RoomIds :
        LifecycleBudget /\ handle_create_room(sid, room_id)

LifecycleJoinRoom ==
    \E sid \in Sids, room_id \in RoomIds :
        LifecycleBudget /\ handle_join_room(sid, room_id, "Bob")

NextLifecycle ==
    \/ OnConnect
    \/ LifecycleDisconnect
    \/ LifecycleCreateRoom
    \/ LifecycleJoinRoom

SpecLifecycle == Init /\ [][NextLifecycle]_vars

-----------------------------------------------------------------------------
(* async_mode='threading' (line 23): every inbound event is handled in a    *)
(* thread of its own. A handler is at the line pc names; one step runs the  *)
(* statement of that line, and the steps of handlers of different           *)
(* connections interleave. A connection has one handler running at a time.  *)

ThreadBudget == now < MaxThreadedEvents

\* a handler starts: the event is received, its data is read into locals
Started(sid, line, locals) ==
    /\ ThreadBudget
    /\ conn[sid] = "open"
    /\ pc[sid] = "idle"
    /\ pc' = [pc EXCEPT ![sid] = line]
    /\ frame' = [frame EXCEPT ![sid] = locals]
    /\ now' = now + 1
    /\ UNCHANGED <<last, pre>>

\* a statement runs and the handler goes to the next line
Goes(sid, from, to, locals) ==
    /\ pc[sid] = from
    /\ pc' = [pc EXCEPT ![sid] = to]
    /\ frame' = [frame EXCEPT ![sid] = locals]
    /\ UNCHANGED <<now, last, pre>>

\* the locals of a handler that returned are gone
Returned(f) == NoFrame

\* list(d.items()) for a dict from room ids to references
RECURSIVE items(_)
items(d) ==
    IF DOMAIN d = {} THEN <<>>
    ELSE LET k == CHOOSE x \in DOMAIN d : TRUE
         IN  <<<<k, d[k]>>>> \o items(DictDel(d, k))

(* handle_create_room *)

\* lines 84-85: join_room(room_id)
create_room_85(sid, room_id) ==
    /\ Started(sid, "L87", [NoFrame EXCEPT !.room_id = room_id])
    /\ sio_rooms' = enter_room(sio_rooms, sid, room_id)
    /\ UNCHANGED <<conn, active_rooms, heap, stream_stats, appended, outbox>>

\* lines 87-88: the new room is stored under room_id
create_room_87(sid) ==
    /\ Goes(sid, "L87", "L91", frame[sid])
    /\ LET o == Alloc(heap)
           ar == DictPut(active_rooms, frame[sid].room_id, o)
           h == DictPut(heap, o, StreamRoom(frame[sid].room_id, sid, now))
       IN  /\ active_rooms' = ar
           /\ heap' = Collect(h, Range(ar) \cup FrameRefs(frame))
    /\ UNCHANGED <<conn, stream_stats, appended, sio_rooms, outbox>>

\* lines 91-94: emit room_created
create_room_91(sid) ==
    /\ Goes(sid, "L91", "idle", Returned(frame[sid]))
    /\ outbox' = Append(outbox,
                        emit(sio_rooms, conn, sid, "room_created",
                             [room_id |-> frame[sid].room_id, host_id |-> sid],
                             None, TRUE))
    /\ UNCHANGED <<conn, active_rooms, heap, stream_stats, appended, sio_rooms>>

(* handle_join_room *)

\* lines 98-101: if room_id not in active_rooms
join_room_101(sid, room_id, username) ==
    /\ Started(sid,
               IF room_id \notin DOMAIN active_rooms THEN "L102" ELSE "L105",
               [NoFrame EXCEPT !.room_id = room_id, !.username = username])
    /\ UNCHANGED <<conn, active_rooms, heap, stream_stats, appended, sio_rooms,
                   outbox>>

\* lines 102-103: emit error, return
join_room_102(sid) ==
    /\ Goes(sid, "L102", "idle", Returned(frame[sid]))
    /\ outbox' = Append(outbox,
                        emit(sio_rooms, conn, sid, "error",
                             [message |-> "Room not found"], None, TRUE))
    /\ UNCHANGED <<conn, active_rooms, heap, stream_stats, appended, sio_rooms>>

\* line 105: room = active_rooms[room_id]; a KeyError ends the handler
join_room_105(sid) ==
    /\ IF frame[sid].room_id \in DOMAIN active_rooms
       THEN Goes(sid, "L105", "L106",
                 [frame[sid] EXCEPT !.room = active_rooms[frame[sid].room_id]])
       ELSE Goes(sid, "L105", "idle", Returned(frame[sid]))
    /\ UNCHANGED <<conn, active_rooms, heap, stream_stats, appended, sio_rooms,
                   outbox>>

\* line 106: join_room(room_id)
join_room_106(sid) ==
    /\ Goes(sid, "L106", "L107", frame[sid])
    /\ sio_rooms' = enter_room(sio_rooms, sid, frame[sid].room_id)
    /\ UNCHANGED <<conn, active_rooms, heap, stream_stats, appended, outbox>>

\* line 107: room.add_viewer(request.sid)
join_room_107(sid) ==
    LET room == add_viewer(heap[frame[sid].room], sid)
    IN  /\ pc[sid] = "L107"
        /\ Goes(sid, "L107", "L112",
                [frame[sid] EXCEPT !.added = Cardinality(room.viewers)])
        /\ heap' = [heap EXCEPT ![frame[sid].room] = room]
        /\ UNCHANGED <<conn, active_rooms, stream_stats, appended, sio_rooms,
                       outbox>>

\* lines 112-116: emit room_joined with room.get_viewer_count()
join_room_112(sid) ==
    /\ Goes(sid, "L112", "L119", frame[sid])
    /\ outbox' = Append(outbox,
                        emit(sio_rooms, conn, sid, "room_joined",
                             [room_id |-> frame[sid].room_id,
                              viewer_count |-> get_viewer_count(heap[frame[sid].room]),
                              username |-> username_of(frame[sid].username)],
                             None, TRUE))
    /\ UNCHANGED <<conn, active_rooms, heap, stream_stats, appended, sio_rooms>>

\* lines 119-123: emit viewer_joined with room.get_viewer_count()
join_room_119(sid) ==
    /\ Goes(sid, "L119", "idle", Returned(frame[sid]))
    /\ outbox' = Append(outbox,
                        emit(sio_rooms, conn, sid, "viewer_joined",
                             [viewer_id |-> sid,
                              username |-> username_of(frame[sid].username),
                              viewer_count |-> get_viewer_count(heap[frame[sid].room])],
                             frame[sid].room_id, FALSE))
    /\ heap' = Collect(heap, Range(active_rooms) \cup FrameRefs(frame'))
    /\ UNCHANGED <<conn, active_rooms, stream_stats, appended, sio_rooms>>

(* handle_disconnect *)

\* line 70: the transport is closed; list(active_rooms.items())
disconnect_70(sid) ==
    /\ Started(sid, "L71", [NoFrame EXCEPT !.todo = items(active_rooms)])
    /\ conn' = [conn EXCEPT ![sid] = "closed"]
    /\ UNCHANGED <<active_rooms, heap, stream_stats, appended, sio_rooms, outbox>>

\* lines 70-71, 75: the next room of the list, and the branch taken for it
disconnect_71(sid) ==
    /\ pc[sid] = "L71"
    /\ frame[sid].todo # <<>>
    /\ LET room == heap[Head(frame[sid].todo)[2]]
       IN  IF sid = room.host_id THEN Goes(sid, "L71", "L73", frame[sid])
           ELSE IF sid \in room.viewers THEN Goes(sid, "L71", "L76", frame[sid])
           ELSE Goes(sid, "L71", "L71",
                     [frame[sid] EXCEPT !.todo = Tail(@)])
    /\ heap' = Collect(heap, Range(active_rooms) \cup FrameRefs(frame'))
    /\ UNCHANGED <<conn, active_rooms, stream_stats, appended, sio_rooms, outbox>>

\* line 73: emit stream_ended to the group of room_id
disconnect_73(sid) ==
    /\ Goes(sid, "L73", "L74", frame[sid])
    /\ outbox' = Append(outbox,
                        emit(sio_rooms, conn, sid, "stream_ended",
                             [message |-> "Host disconnected"],
                             Head(frame[sid].todo)[1], TRUE))
    /\ UNCHANGED <<conn, active_rooms, heap, stream_stats, appended, sio_rooms>>

\* line 74: del active_rooms[room_id]. A KeyError (the entry is gone) ends
\* the handler; whether the library then still takes the sid out of its
\* groups is not decided by this file: either may be
disconnect_74(sid) ==
    /\ pc[sid] = "L74"
    /\ LET room_id == Head(frame[sid].todo)[1]
       IN  IF room_id \in DOMAIN active_rooms
           THEN /\ Goes(sid, "L74", "L71", [frame[sid] EXCEPT !.todo = Tail(@)])
                /\ active_rooms' = DictDel(active_rooms, room_id)
                /\ heap' = Collect(heap,
                                   Range(active_rooms') \cup FrameRefs(frame'))
                /\ UNCHANGED <<conn, stream_stats, appended, sio_rooms, outbox>>
           ELSE /\ Goes(sid, "L74", "idle", Returned(frame[sid]))
                /\ \E cleaned \in BOOLEAN :
                       sio_rooms' = IF cleaned THEN leave_all(sio_rooms, sid)
                                    ELSE sio_rooms
                /\ heap' = Collect(heap,
                                   Range(active_rooms) \cup FrameRefs(frame'))
                /\ UNCHANGED <<conn, active_rooms, stream_stats, appended,
                               outbox>>

\* line 76: room.remove_viewer(request.sid)
disconnect_76(sid) ==
    /\ Goes(sid, "L76", "L77", frame[sid])
    /\ heap' = [heap EXCEPT ![Head(frame[sid].todo)[2]] = remove_viewer(@, sid)]
    /\ UNCHANGED <<conn, active_rooms, stream_stats, appended, sio_rooms, outbox>>

\* lines 77-80: emit viewer_left with room.get_viewer_count()
disconnect_77(sid) ==
    LET item == Head(frame[sid].todo)
    IN  /\ pc[sid] = "L77"
        /\ Goes(sid, "L77", "L71", [frame[sid] EXCEPT !.todo = Tail(@)])
        /\ outbox' = Append(outbox,
                            emit(sio_rooms, conn, sid, "viewer_left",
                                 [viewer_id |-> sid,
                                  viewer_count |-> get_viewer_count(heap[item[2]])],
                                 item[1], TRUE))
        /\ heap' = Collect(heap, Range(active_rooms) \cup FrameRefs(frame'))
        /\ UNCHANGED <<conn, active_rooms, stream_stats, appended, sio_rooms>>

\* the loop is over, the handler returns and the library takes the sid out
\* of its groups
disconnect_end(sid) ==
    /\ frame[sid].todo = <<>>
    /\ Goes(sid, "L71", "idle", Returned(frame[sid]))
    /\ sio_rooms' = leave_all(sio_rooms, sid)
    /\ UNCHANGED <<conn, active_rooms, heap, stream_stats, appended, outbox>>

(* handle_stream_stats *)

\* lines 205-208: if room_id not in stream_stats
stream_stats_208(sid, room_id, stats) ==
    /\ Started(sid,
               IF room_id \notin DOMAIN stream_stats THEN "L209" ELSE "L211",
               [NoFrame EXCEPT !.room_id = room_id, !.stats = stats])
    /\ UNCHANGED <<conn, active_rooms, heap, stream_stats, appended, sio_rooms,
                   outbox>>

\* line 209: stream_stats[room_id] = []
stream_stats_209(sid) ==
    /\ Goes(sid, "L209", "L211", frame[sid])
    /\ stream_stats' = DictPut(stream_stats, frame[sid].room_id, <<>>)
    /\ UNCHANGED <<conn, active_rooms, heap, appended, sio_rooms, outbox>>

\* lines 211-214: stream_stats[room_id].append(...)
stream_stats_211(sid) ==
    LET room_id == frame[sid].room_id
        entry == [timestamp |-> now, stats |-> frame[sid].stats]
    IN  /\ pc[sid] = "L211"
        /\ Goes(sid, "L211", "L217", frame[sid])
        /\ stream_stats' = [stream_stats EXCEPT ![room_id] = Append(@, entry)]
        /\ appended' =
             DictPut(appended, room_id,
                     Append(IF room_id \in DOMAIN appended
                            THEN appended[room_id] ELSE <<>>, entry))
        /\ UNCHANGED <<conn, active_rooms, heap, sio_rooms, outbox>>

\* line 217: if len(stream_stats[room_id]) > 100, and line 218: the cut
stream_stats_217(sid) ==
    LET room_id == frame[sid].room_id
    IN  /\ pc[sid] \in {"L217", "L218"}
        /\ IF pc[sid] = "L217" /\ Len(stream_stats[room_id]) > StatsLimit
           THEN /\ Goes(sid, "L217", "L218", frame[sid])
                /\ UNCHANGED stream_stats
           ELSE /\ Goes(sid, pc[sid], "idle", Returned(frame[sid]))
                /\ stream_stats' =
                     IF pc[sid] = "L218"
                     THEN [stream_stats EXCEPT
                             ![room_id] = LastN(@, StatsKeep)]
                     ELSE stream_stats
        /\ UNCHANGED <<conn, active_rooms, heap, appended, sio_rooms, outbox>>

NextThreaded ==
    \/ \E sid \in Sids, room_id \in RoomIds : create_room_85(sid, room_id)
    \/ \E sid \in Sids : create_room_87(sid)
    \/ \E sid \in Sids : create_room_91(sid)
    \/ \E sid \in Sids, room_id \in RoomIds : join_room_101(sid, room_id, "Bob")
    \/ \E sid \in Sids : join_room_102(sid)
    \/ \E sid \in Sids : join_room_105(sid)
    \/ \E sid \in Sids : join_room_106(sid)
    \/ \E sid \in Sids : join_room_107(sid)
    \/ \E sid \in Sids : join_room_112(sid)
    \/ \E sid \in Sids : join_room_119(sid)
    \/ \E sid \in Sids : disconnect_70(sid)
    \/ \E sid \in Sids : disconnect_71(sid)
    \/ \E sid \in Sids : disconnect_73(sid)
    \/ \E sid \in Sids : disconnect_74(sid)
    \/ \E sid \in Sids : disconnect_76(sid)
    \/ \E sid \in Sids : disconnect_77(sid)
    \/ \E sid \in Sids : disconnect_end(sid)
    \/ \E sid \in Sids, room_id \in RoomIds, stats \in Payloads :
          stream_stats_208(sid, room_id, stats)
    \/ \E sid \in Sids : stream_stats_209(sid)
    \/ \E sid \in Sids : stream_stats_211(sid)
    \/ \E sid \in Sids : stream_stats_217(sid)

\* the three connections are open (Spec gets there by three connect events)
AllConnected ==
    /\ conn = [s \in Sids |-> "open"]
    /\ active_rooms = <<>>
    /\ heap = <<>>
    /\ stream_stats = <<>>
    /\ sio_rooms = [g \in GroupNames |-> IF g \in Sids THEN {g} ELSE {}]
    /\ appended = <<>>
    /\ now = 0

InitThreaded ==
    /\ AllConnected
    /\ last = Event("init", None, None, None)
    /\ outbox = <<>>
    /\ pre = Shared
    /\ pc = Idle
    /\ frame = NoFrames

SpecThreaded == InitThreaded /\ [][NextThreaded]_vars

-----------------------------------------------------------------------------
(* What the claims speak of *)

\* the room stored under room_id now, and before the event applied last
Room(k) == RoomAt(active_rooms, heap, k)
PreRoom(k) == RoomAt(pre.active_rooms, pre.heap, k)

Sent(ev) == {i \in 1..Len(outbox) : outbox[i].event = ev}
SentFor(ev, k) == {i \in Sent(ev) : outbox[i].room = k}

\* the last event was a join_room for a room of the table
JoinedExisting ==
    /\ last.ev = "join_room"
    /\ last.room_id \in DOMAIN pre.active_rooms

-----------------------------------------------------------------------------
(* C1: every viewer count the server reports (room_joined, viewer_joined,   *)
(* viewer_left, the room listing) is the size of the room's viewer set at   *)
(* the moment the event is applied.                                         *)

C1_ViewerCountIsSetSize ==
    \A i \in 1..Len(outbox) :
        LET m == outbox[i]
        IN  /\ m.event \in {"room_joined", "viewer_joined"} =>
                /\ last.room_id \in DOMAIN active_rooms
                /\ m.payload.viewer_count = Cardinality(Room(last.room_id).viewers)
                /\ Room(last.room_id).viewers =
                       PreRoom(last.room_id).viewers \cup {last.sid}
            /\ m.event = "viewer_left" =>
                /\ m.room \in DOMAIN active_rooms
                /\ m.payload.viewer_count = Cardinality(Room(m.room).viewers)
                /\ Room(m.room).viewers = PreRoom(m.room).viewers \ {last.sid}
            /\ m.event = "api_rooms" =>
                /\ DOMAIN m.payload = DOMAIN active_rooms
                /\ \A k \in DOMAIN m.payload :
                       m.payload[k].viewer_count = Cardinality(Room(k).viewers)

\* a second viewer joins: both messages of the join report 2, and the
\* broadcast reaches somebody
C1_Witness ==
    /\ JoinedExisting
    /\ \E i \in Sent("room_joined") : outbox[i].payload.viewer_count = 2
    /\ \E i \in Sent("viewer_joined") :
           outbox[i].payload.viewer_count = 2 /\ outbox[i].to # {}

-----------------------------------------------------------------------------
(* C2: join_room naming a room id that is not in the room table sends       *)
(* exactly one error event to the caller, nothing to anyone else, and       *)
(* changes no state (room table, viewer sets, logs, group membership).      *)

JoinedMissing ==
    /\ last.ev = "join_room"
    /\ last.room_id \notin DOMAIN pre.active_rooms

StateUntouched ==
    /\ active_rooms = pre.active_rooms
    /\ heap = pre.heap
    /\ stream_stats = pre.stream_stats
    /\ sio_rooms = pre.sio_rooms
    /\ conn = pre.conn

C2_JoinMissingRoom ==
    JoinedMissing =>
        /\ Len(outbox) = 1
        /\ outbox[1].event = "error"
        /\ outbox[1].payload = [message |-> "Room not found"]
        /\ outbox[1].to = {last.sid}
        /\ StateUntouched

\* the part of C2 the code keeps: one error event and no change of state
C2_OneErrorNoMutation ==
    JoinedMissing =>
        /\ Len(outbox) = 1
        /\ outbox[1].event = "error"
        /\ last.sid \in outbox[1].to
        /\ StateUntouched

-----------------------------------------------------------------------------
(* C3: when the host of a room with N viewers disconnects, exactly one      *)
(* stream_ended broadcast is emitted for that room, it reaches all N        *)
(* connections of the viewer set, and afterwards the room id is not in the  *)
(* room table.                                                              *)

HostedBefore(sid) ==
    {k \in DOMAIN pre.active_rooms : PreRoom(k).host_id = sid}

C3_HostDisconnect ==
    last.ev = "disconnect" =>
        \A k \in HostedBefore(last.sid) :
            /\ Cardinality(SentFor("stream_ended", k)) = 1
            /\ \A i \in SentFor("stream_ended", k) :
                   PreRoom(k).viewers \ {last.sid} \subseteq outbox[i].to
            /\ k \notin DOMAIN active_rooms

\* the part of C3 the code keeps: one broadcast for each hosted room, and the
\* room is gone
C3_OneBroadcastRoomGone ==
    last.ev = "disconnect" =>
        \A k \in HostedBefore(last.sid) :
            /\ Cardinality(SentFor("stream_ended", k)) = 1
            /\ k \notin DOMAIN active_rooms

-----------------------------------------------------------------------------
(* C4: when a viewer (not the host) of a room disconnects, the room stays   *)
(* in the table, its viewer count goes down by exactly 1, and viewer_left   *)
(* is delivered to exactly the remaining members of the room (its host and  *)
(* the viewers still in the viewer set) and to no other connection.         *)

ViewedBefore(sid) ==
    {k \in DOMAIN pre.active_rooms :
        sid \in PreRoom(k).viewers /\ PreRoom(k).host_id # sid}

C4_ViewerDisconnect ==
    last.ev = "disconnect" =>
        \A k \in ViewedBefore(last.sid) :
            /\ k \in DOMAIN active_rooms
            /\ Cardinality(Room(k).viewers) = Cardinality(PreRoom(k).viewers) - 1
            /\ Cardinality(SentFor("viewer_left", k)) = 1
            /\ \A i \in SentFor("viewer_left", k) :
                   outbox[i].to = {Room(k).host_id} \cup Room(k).viewers

\* the part of C4 the code keeps: the room stays and loses exactly the
\* disconnected viewer
C4_RoomStaysCountDrops ==
    last.ev = "disconnect" =>
        \A k \in ViewedBefore(last.sid) :
            /\ k \in DOMAIN active_rooms
            /\ Room(k).viewers = PreRoom(k).viewers \ {last.sid}
            /\ Cardinality(Room(k).viewers) = Cardinality(PreRoom(k).viewers) - 1

-----------------------------------------------------------------------------
(* C5: an offer, answer or ice_candidate sent by s with target id t is      *)
(* delivered, payload unmodified plus the sender id s, to connection t and  *)
(* to no other connection, whatever groups exist and whatever t is.         *)

Relayed == last.ev \in {"offer", "answer", "ice_candidate"}

C5_RelayToTargetOnly ==
    Relayed =>
        /\ Len(outbox) = 1
        /\ outbox[1].event = last.ev
        /\ outbox[1].payload.sender_id = last.sid
        /\ outbox[1].payload.body \in Payloads
        /\ outbox[1].to \subseteq {last.target_id}

\* the part of C5 the code keeps: one message, with the sender id, that the
\* target connection is among the receivers of
C5_RelayReachesTarget ==
    Relayed =>
        /\ Len(outbox) = 1
        /\ outbox[1].event = last.ev
        /\ outbox[1].payload.sender_id = last.sid
        /\ (last.target_id \in Sids /\ conn[last.target_id] = "open")
               => last.target_id \in outbox[1].to

-----------------------------------------------------------------------------
(* C6: after n stream_stats events for one room id the stats log of that    *)
(* room id holds exactly min(n, 100) entries, the most recently appended    *)
(* ones in insertion order; its length never exceeds 100 after an event.    *)

C6_StatsLogKeepsLast100 ==
    /\ DOMAIN stream_stats = DOMAIN appended
    /\ \A k \in DOMAIN stream_stats :
           LET log == stream_stats[k]
               n == Len(appended[k])
           IN  /\ Len(log) = IF n < 100 THEN n ELSE 100
               /\ \A i \in 1..Len(log) : log[i] = appended[k][n - Len(log) + i]

\* more than 100 entries were appended to one room id and the oldest is gone
C6_Witness ==
    /\ "r1" \in DOMAIN appended
    /\ Len(appended["r1"]) > 101
    /\ stream_stats["r1"][1] # appended["r1"][1]

-----------------------------------------------------------------------------
(* C7: adding a viewer that is already in the viewer set (a second          *)
(* join_room of the same connection) and removing a viewer that is not in   *)
(* it leave the viewer set, and the viewer count, as they were.             *)

Rejoined ==
    /\ JoinedExisting
    /\ last.sid \in PreRoom(last.room_id).viewers

C7_AddRemoveIdempotent ==
    /\ Rejoined =>
           /\ last.room_id \in DOMAIN active_rooms
           /\ Room(last.room_id).viewers = PreRoom(last.room_id).viewers
           /\ \A i \in Sent("room_joined") \cup Sent("viewer_joined") :
                  outbox[i].payload.viewer_count =
                      Cardinality(PreRoom(last.room_id).viewers)
    /\ \A k \in DOMAIN active_rooms : \A v \in Sids :
           /\ add_viewer(add_viewer(Room(k), v), v) = add_viewer(Room(k), v)
           /\ remove_viewer(remove_viewer(Room(k), v), v) = remove_viewer(Room(k), v)
           /\ v \notin Room(k).viewers => remove_viewer(Room(k), v) = Room(k)
           /\ get_viewer_count(add_viewer(add_viewer(Room(k), v), v)) =
                  get_viewer_count(add_viewer(Room(k), v))

\* a connection that is a viewer of the room joins it a second time
C7_Witness ==
    /\ Rejoined
    /\ Sent("room_joined") # {}

-----------------------------------------------------------------------------
(* C8: deleting a room (its host disconnects) removes the room together     *)
(* with its chat log and its stats log: afterwards the stats history of     *)
(* that room id is empty until new stats are appended.                      *)

C8_DeleteRemovesLogs ==
    last.ev = "disconnect" =>
        \A k \in HostedBefore(last.sid) :
            /\ k \notin DOMAIN active_rooms
            /\ pre.active_rooms[k] \notin DOMAIN heap
            /\ k \notin DOMAIN stream_stats

\* the part of C8 the code keeps: the room and the chat log it holds are gone
C8_RoomAndChatLogGone ==
    last.ev = "disconnect" =>
        \A k \in HostedBefore(last.sid) :
            /\ k \notin DOMAIN active_rooms
            /\ pre.active_rooms[k] \notin DOMAIN heap

-----------------------------------------------------------------------------
(* C9: handlers of different connections may run concurrently, but the      *)
(* read-modify-write sequence of one event on a room (or on the room table, *)
(* or on a stats log) is executed under mutual exclusion: no step of        *)
(* another handler that mutates the same state is interleaved inside it.    *)

\* the handler of sid takes the step
Steps(sid) == pc'[sid] # pc[sid] \/ frame'[sid] # frame[sid]

\* the state a running handler has read and has yet to write: a stats log
\* from the test of line 208 to the cut of line 218, a room from the test of
\* line 101 to the add of line 107, the rooms of the snapshot of line 70 up
\* to their delete of line 74 or their remove of line 76. create_room writes
\* the table in the one step of line 88 and is never in the middle
Working(sid) ==
    CASE pc[sid] \in {"L209", "L211", "L217", "L218"} ->
             {<<"stats", frame[sid].room_id>>}
      [] pc[sid] \in {"L105", "L106", "L107"} ->
             {<<"room", frame[sid].room_id>>}
      [] pc[sid] \in {"L71", "L73", "L74", "L76"} ->
             {<<"room", frame[sid].todo[i][1]>> : i \in 1..Len(frame[sid].todo)}
      [] pc[sid] = "L77" ->
             {<<"room", frame[sid].todo[i][1]>> : i \in 2..Len(frame[sid].todo)}
      [] OTHER -> {}

StatsUnder(table, k) == IF k \in DOMAIN table THEN <<table[k]>> ELSE <<>>
RoomUnder(ar, h, k) == IF k \in DOMAIN ar THEN <<h[ar[k]]>> ELSE <<>>

\* what the step changes, of the rooms and logs under a room id that a
\* client gave
Mutated ==
    {<<"stats", k>> : k \in {x \in RoomIds \ {None} :
        StatsUnder(stream_stats', x) # StatsUnder(stream_stats, x)}}
    \cup
    {<<"room", k>> : k \in {x \in RoomIds \ {None} :
        RoomUnder(active_rooms', heap', x) # RoomUnder(active_rooms, heap, x)}}

C9_EventsMutuallyExclusive ==
    [][\A a \in Sids : Steps(a) =>
          \A b \in Sids \ {a} : Mutated \cap Working(b) = {}]_vars

-----------------------------------------------------------------------------
(* C10: for every successful join_room, also when handlers of other         *)
(* connections for the same room run concurrently, the viewer count of      *)
(* room_joined equals the viewer count of the viewer_joined of that join,   *)
(* and both equal the size of the viewer set when the joiner was added.     *)

\* the last message of this event that the handler of sid emitted
LastFrom(box, sid, ev) ==
    box[CHOOSE i \in 1..Len(box) :
            /\ box[i].sender = sid /\ box[i].event = ev
            /\ \A j \in (i + 1)..Len(box) :
                   ~(box[j].sender = sid /\ box[j].event = ev)]

C10_JoinCountsConsistent ==
    [][\A sid \in Sids :
          (pc[sid] = "L119" /\ pc'[sid] = "idle" /\ frame[sid].room_id # None) =>
          LET joined == LastFrom(outbox, sid, "room_joined").payload.viewer_count
              told == outbox'[Len(outbox')].payload.viewer_count
          IN  joined = told /\ joined = frame[sid].added]_vars

-----------------------------------------------------------------------------
(* C11: every room of the room table has exactly one host id, the           *)
(* connection that created it, which never changes while that room id       *)
(* stays in the table; and a connection in a room's viewer set stays in it  *)
(* until it disconnects or the room is torn down by its host's disconnect.  *)

\* the last event was a create_room for room id k
Replaced(k) == last.ev = "create_room" /\ last.room_id = k

\* the last event was the disconnect of sid
Left(sid) == last.ev = "disconnect" /\ last.sid = sid

-----------------------------------------------------------------------------
(* C12: in every reachable state a connection is the host of at most one    *)
(* room of the room table (it may be a viewer of several rooms as well).    *)

\* the room ids a client gave under which sid is the host
HostedBy(sid) == {k \in DOMAIN active_rooms \ {None} : Room(k).host_id = sid}

C12_HostOfAtMostOneRoom ==
    \A sid \in Sids : Cardinality(HostedBy(sid)) <= 1

-----------------------------------------------------------------------------
(* C13: an inbound event that lacks a required field (room_id of            *)
(* create_room, join_room, start_stream, stop_stream, chat_message or       *)
(* stream_stats, target_id of offer, answer or ice_candidate) is ignored:   *)
(* it changes no state (room table, viewer sets, logs, broadcast groups)    *)
(* and produces no outbound message.                                        *)

MissingField ==
    \/ /\ last.ev \in {"create_room", "join_room", "start_stream",
                       "stop_stream", "chat_message", "stream_stats"}
       /\ last.room_id = None
    \/ Relayed /\ last.target_id = None

C13_MissingFieldIgnored ==
    MissingField => StateUntouched /\ outbox = <<>>

-----------------------------------------------------------------------------
(* C14: create_room with a room id that is already in the table replaces    *)
(* the old room with no merge and no error: afterwards the room has the     *)
(* sender as host, an empty viewer set, stream-active false and empty       *)
(* logs; the only outbound message is room_created to the sender, and the   *)
(* old room's host and viewers receive no notification.                     *)

\* the last event was a create_room for a room id a client gave that was in
\* the table
Overwritten ==
    /\ last.ev = "create_room"
    /\ last.room_id # None
    /\ last.room_id \in DOMAIN pre.active_rooms

StatsLogOf(k) == IF k \in DOMAIN stream_stats THEN stream_stats[k] ELSE <<>>

C14_CreateOverwrites ==
    Overwritten =>
        /\ last.room_id \in DOMAIN active_rooms
        /\ Room(last.room_id) =
               [StreamRoom(last.room_id, last.sid, 0) EXCEPT
                   !.created_at = Room(last.room_id).created_at]
        /\ StatsLogOf(last.room_id) = <<>>
        /\ Len(outbox) = 1
        /\ outbox[1].event = "room_created"
        /\ outbox[1].payload = [room_id |-> last.room_id, host_id |-> last.sid]
        /\ outbox[1].to = {last.sid}

\* the part of C14 the code keeps: a fresh room of the sender, and one
\* room_created that the sender receives
C14_FreshRoomOfSender ==
    Overwritten =>
        /\ last.room_id \in DOMAIN active_rooms
        /\ Room(last.room_id) =
               [StreamRoom(last.room_id, last.sid, 0) EXCEPT
                   !.created_at = Room(last.room_id).created_at]
        /\ Len(outbox) = 1
        /\ outbox[1].event = "room_created"
        /\ outbox[1].payload = [room_id |-> last.room_id, host_id |-> last.sid]
        /\ last.sid \in outbox[1].to

-----------------------------------------------------------------------------
(* C15: the stream-active flag of a room is false at creation and then      *)
(* true exactly when the last start_stream / stop_stream applied to the     *)
(* room was start_stream; each such event is broadcast to all members of    *)
(* the room, the sender included; start_stream and stop_stream naming a     *)
(* room id that is not in the table change no state and emit nothing.       *)

\* the connected host and viewers of the room under k
Members(k) == {s \in {Room(k).host_id} \cup Room(k).viewers : conn[s] = "open"}

StreamToggled == last.ev \in {"start_stream", "stop_stream"}

\* what C15 says of the rooms under the ids of the set ids
StreamFlagFollows(ids) ==
    /\ last.ev = "create_room" /\ last.room_id \in ids
           => ~Room(last.room_id).stream_active
    /\ StreamToggled /\ last.room_id \in ids \cap DOMAIN pre.active_rooms =>
           /\ last.room_id \in DOMAIN active_rooms
           /\ Room(last.room_id) =
                  [PreRoom(last.room_id) EXCEPT
                      !.stream_active = (last.ev = "start_stream")]
           /\ Len(outbox) = 1
           /\ outbox[1].event = IF last.ev = "start_stream"
                                THEN "stream_started" ELSE "stream_stopped"
           /\ outbox[1].payload = [room_id |-> last.room_id]
           /\ Members(last.room_id) \subseteq outbox[1].to
    /\ StreamToggled /\ last.room_id \in ids \ DOMAIN pre.active_rooms =>
           StateUntouched /\ outbox = <<>>
    /\ \A k \in ids \cap DOMAIN pre.active_rooms \cap DOMAIN active_rooms :
           (StreamToggled /\ last.room_id = k) \/ Replaced(k)
               \/ Room(k).stream_active = PreRoom(k).stream_active

C15_StreamActiveFlag == StreamFlagFollows(RoomIds)

\* the part of C15 the code keeps: the rooms under a room id a client gave
C15_NamedRooms == StreamFlagFollows(RoomIds \ {None})

-----------------------------------------------------------------------------
(* C16: for a room that exists every chat_message appends exactly one       *)
(* entry to the room's chat log and broadcasts that same entry to all       *)
(* members of the room, the sender included, so the chat log is the         *)
(* sequence of the entries broadcast for the room, in the order applied;    *)
(* chat_message naming a room id that is not in the table appends nothing   *)
(* and emits nothing.                                                       *)

Chatted(k) == last.ev = "chat_message" /\ last.room_id = k

\* what C16 says of the rooms under the ids of the set ids
ChatLogFollows(ids) ==
    /\ \A k \in ids \cap DOMAIN pre.active_rooms : Chatted(k) =>
           /\ k \in DOMAIN active_rooms
           /\ Len(outbox) = 1
           /\ outbox[1].event = "chat_message"
           /\ outbox[1].payload.message = "hi"
           /\ Room(k) = [PreRoom(k) EXCEPT
                            !.chat_history = Append(@, outbox[1].payload)]
           /\ Members(k) \subseteq outbox[1].to
    /\ \A k \in ids \ DOMAIN pre.active_rooms : Chatted(k) =>
           StateUntouched /\ outbox = <<>>
    /\ \A k \in ids \cap DOMAIN pre.active_rooms \cap DOMAIN active_rooms :
           Chatted(k) \/ Replaced(k)
               \/ Room(k).chat_history = PreRoom(k).chat_history

C16_ChatLogIsBroadcasts == ChatLogFollows(RoomIds)

\* the part of C16 the code keeps: the rooms under a room id a client gave
C16_NamedRooms == ChatLogFollows(RoomIds \ {None})

-----------------------------------------------------------------------------
(* C17: for any sequence of connect, create_room, join_room and disconnect  *)
(* events, every host id and every viewer id stored in a room of the room   *)
(* table belongs to a connected connection: once the disconnect of a        *)
(* connection has been processed no room has it as host and no viewer set   *)
(* contains it.                                                             *)

C17_IdsAreConnected ==
    \A k \in DOMAIN active_rooms :
        /\ conn[Room(k).host_id] = "open"
        /\ \A v \in Room(k).viewers : conn[v] = "open"

\* a connection that was the host of one room and a viewer of another has
\* disconnected: the first room is gone, the second one stays
C17_Witness ==
    /\ last.ev = "disconnect"
    /\ HostedBefore(last.sid) # {}
    /\ \E k \in ViewedBefore(last.sid) : k \in DOMAIN active_rooms
    /\ conn[last.sid] = "closed"

-----------------------------------------------------------------------------
(* C18: the broadcast group of a room of the table consists of exactly the  *)
(* room's host and the connections of its viewer set, so a room-wide        *)
(* broadcast is never delivered to a connection that is neither host nor    *)
(* viewer of the room now stored under that id, also after the id was torn  *)
(* down and created again or overwritten by a second create_room.           *)

\* the connections a broadcast to the group of room id k is delivered to
Audience(k) == {s \in sio_rooms[k] : conn[s] = "open"}

\* stated for the rooms under a room name, which is no connection's sid
C18_GroupIsHostAndViewers ==
    \A k \in DOMAIN active_rooms \cap RoomNames : Audience(k) = Members(k)

-----------------------------------------------------------------------------
(* C19: a disconnect deletes only rooms whose host is the disconnecting     *)
(* connection: when the disconnect handler of host A for room id r runs     *)
(* concurrently with a create_room for the same id r by connection B, the   *)
(* room hosted by B is never removed from the room table by A's disconnect. *)

\* a room under a room id a client gave leaves the table only by a step of
\* the handler of its host
C19_DisconnectDeletesOwnRoomsOnly ==
    [][\A k \in DOMAIN active_rooms \ {None} :
          k \notin DOMAIN active_rooms' => Steps(Room(k).host_id)]_vars

-----------------------------------------------------------------------------
(* C20: when a join_room for room r by connection B runs concurrently with  *)
(* the disconnect of r's host, B never ends up holding a room_joined for a  *)
(* room that has silently disappeared: a connection that received           *)
(* room_joined for r and stays connected also receives stream_ended for r   *)
(* if r's host disconnects, and room_joined is never sent for a room that   *)
(* is already deleted.                                                      *)

\* all handlers have returned: whoever holds a room_joined for a room id that
\* is no longer in the table has received a stream_ended for it
JoinedRoomEndsLoudly ==
    pc = Idle =>
        \A i \in Sent("room_joined") :
            LET r == outbox[i].payload.room_id
                b == outbox[i].sender
            IN  (r # None /\ conn[b] = "open" /\ b \in outbox[i].to
                    /\ r \notin DOMAIN active_rooms)
                => \E j \in SentFor("stream_ended", r) : b \in outbox[j].to

\* the step of lines 112-116 emits room_joined for a room id of the table
JoinedRoomIsThere ==
    \A sid \in Sids :
        (pc[sid] = "L112" /\ pc'[sid] = "L119" /\ frame[sid].room_id # None)
            => frame[sid].room_id \in DOMAIN active_rooms

\* no step emits a room_joined for a room id that is gone, and no step
\* leads to a state where a joiner was left without its stream_ended
C20_JoinNeverOutlivesRoom ==
    [][JoinedRoomIsThere /\ JoinedRoomEndsLoudly']_vars

====
